---- MODULE Spec2Model ----
(***************************************************************************)
(* Merkle tree over byte records: construction (MerkleTree::new), the      *)
(* integrity check (MerkleTree::verify), proof generation                  *)
(* (MerkleTree::generate_proof) and standalone proof verification          *)
(* (MerkleProof::verify).                                                  *)
(*                                                                         *)
(* Bytes are modelled as sequences of 32-byte blocks.  A block is either   *)
(* an opaque block <<"raw", n>> or a digest.  A digest is the pair         *)
(* <<function name, preimage>>: both hash functions are collision-free     *)
(* and their ranges are disjoint, which is the cryptographic assumption    *)
(* the repository relies on.                                               *)
(***************************************************************************)
EXTENDS Integers, Sequences, FiniteSets, TLC

VARIABLES tree, proof, ret, data, alters

vars == <<tree, proof, ret, data, alters>>

\* ------------------------------------------------------------------ bounds
MaxLen == 3        \* longest record list handed to MerkleTree::new
MaxAlter == 1      \* field alterations applied to one materialized tree
MaxSteps == 2      \* longest step list of a deserialized proof

\* ------------------------------------------------------------- Option<T>
None == <<>>
Some(x) == <<x>>

\* ------------------------------------------------------------ hash functions
\* alloy_primitives::keccak256 over a byte string
keccak256(bytes) == <<"keccak256", bytes>>

\* sha2::Sha256::digest over a byte string
Sha256(bytes) == <<"sha256", bytes>>

\* ------------------------------------------------------------------ records
Raw(n) == <<"raw", n>>
RecA == <<Raw(1)>>
RecB == <<Raw(2)>>
RecC == <<Raw(3)>>
\* a 64-byte record: the concatenation of the leaf hashes of RecA and RecB
RecAB == <<keccak256(RecA), keccak256(RecB)>>
RecD == <<Raw(4)>>

Records == {RecA, RecB, RecC, RecAB}

RECURSIVE SeqsUpTo(_, _)
SeqsUpTo(S, n) ==
    IF n = 0 THEN {<<>>}
    ELSE LET shorter == SeqsUpTo(S, n - 1)
         IN  shorter \cup {Append(s, x) : s \in {t \in shorter : Len(t) = n - 1}, x \in S}

DataInputs == SeqsUpTo(Records, MaxLen)

\* ---------------------------------------------------------------- MerkleNode
\* MerkleNode::new_leaf
new_leaf(datum) == [hash |-> keccak256(datum), left |-> None, right |-> None]

\* the Node Combiner: the hash MerkleNode::new_internal computes from its
\* children's hashes, keccak256 of left followed by right
combine(left_hash, right_hash) == keccak256(<<left_hash>> \o <<right_hash>>)

\* new_internal concatenating the right hash before the left one
new_internal_swapped(left, right) ==
    [hash |-> keccak256(<<right.hash>> \o <<left.hash>>),
     left |-> Some(left), right |-> Some(right)]

\* new_internal hashing with the function MerkleProof::verify uses
new_internal_sha256(left, right) ==
    [hash |-> Sha256(<<left.hash>> \o <<right.hash>>),
     left |-> Some(left), right |-> Some(right)]

\* MerkleNode::new_internal
new_internal(left, right) ==
    [hash |-> combine(left.hash, right.hash), left |-> Some(left), right |-> Some(right)]

\* ---------------------------------------------------------------- MerkleTree
\* the for loop pairing an unpaired last node with itself
next_level_duplicate_odd(nodes) ==
    [k \in 1..((Len(nodes) + 1) \div 2) |->
        IF 2 * k <= Len(nodes)
        THEN new_internal(nodes[2 * k - 1], nodes[2 * k])
        ELSE new_internal(nodes[2 * k - 1], nodes[2 * k - 1])]

\* one pass of the for loop of build_tree_recursive
next_level(nodes) ==
    [k \in 1..((Len(nodes) + 1) \div 2) |->
        IF 2 * k <= Len(nodes)
        THEN new_internal(nodes[2 * k - 1], nodes[2 * k])
        ELSE nodes[2 * k - 1]]

RECURSIVE build_tree_recursive(_)
build_tree_recursive(nodes) ==
    IF Len(nodes) = 1 THEN nodes[1]
    ELSE build_tree_recursive(next_level(nodes))

\* the node vectors of the successive calls of build_tree_recursive, the leaf
\* level first, the one-node level last
RECURSIVE levels_of(_)
levels_of(nodes) ==
    IF Len(nodes) = 1 THEN <<nodes>>
    ELSE <<nodes>> \o levels_of(next_level(nodes))

\* the HashMap filled by the for loop of MerkleTree::new
RECURSIVE leaves_map(_)
leaves_map(d) ==
    IF d = <<>> THEN <<>>
    ELSE LET rest == leaves_map(SubSeq(d, 1, Len(d) - 1))
             last == d[Len(d)]
             key  == keccak256(last)
         IN  [h \in (DOMAIN rest) \cup {key} |-> IF h = key THEN last ELSE rest[h]]

\* new treating an empty list as the list of one empty record
new_accepts_empty(d) ==
    LET e == IF Len(d) = 0 THEN <<<<>>>> ELSE d
        leaf_nodes == [i \in 1..Len(e) |-> new_leaf(e[i])]
    IN  [ok |-> TRUE, err |-> "",
         tree |-> Some([root   |-> build_tree_recursive(leaf_nodes),
                        leaves |-> leaves_map(e)])]

\* MerkleTree::new
new(d) ==
    IF Len(d) = 0
    THEN [ok |-> FALSE, err |-> "EmptyData", tree |-> None]
    ELSE LET leaf_nodes == [i \in 1..Len(d) |-> new_leaf(d[i])]
         IN  [ok |-> TRUE, err |-> "",
              tree |-> Some([root   |-> build_tree_recursive(leaf_nodes),
                             leaves |-> leaves_map(d)])]

\* MerkleTree::root_hash
root_hash(t) == t.root.hash

\* verify_node that never descends into the left child
RECURSIVE verify_node_right_only(_)
verify_node_right_only(node) ==
    IF node.left = None /\ node.right = None
    THEN TRUE
    ELSE IF node.left # None /\ node.right # None
    THEN IF node.hash # keccak256(<<node.left[1].hash>> \o <<node.right[1].hash>>)
         THEN FALSE
         ELSE verify_node_right_only(node.right[1])
    ELSE FALSE

\* MerkleTree::verify_node
RECURSIVE verify_node(_)
verify_node(node) ==
    IF node.left = None /\ node.right = None
    THEN TRUE
    ELSE IF node.left # None /\ node.right # None
    THEN LET left  == node.left[1]
             right == node.right[1]
             expected_hash == keccak256(<<left.hash>> \o <<right.hash>>)
         IN  IF node.hash # expected_hash
             THEN FALSE
             ELSE verify_node(left) /\ verify_node(right)
    ELSE FALSE

\* MerkleTree::verify
MerkleTree_verify(t) == verify_node(t.root)

\* ProofStep::Left / ProofStep::Right
Left(h)  == [side |-> "Left",  hash |-> h]
Right(h) == [side |-> "Right", hash |-> h]

\* build_proof pushing the step before it searches a subtree and leaving it
\* in the vector when the search fails
RECURSIVE build_proof_no_backtrack(_, _, _)
build_proof_no_backtrack(node, target_hash, proof_steps) ==
    IF node.hash = target_hash
    THEN [found |-> TRUE, steps |-> proof_steps]
    ELSE IF node.left # None /\ node.right # None
    THEN LET left  == node.left[1]
             right == node.right[1]
             inLeft == build_proof_no_backtrack(left, target_hash,
                                                Append(proof_steps, Right(right.hash)))
         IN  IF inLeft.found
             THEN inLeft
             ELSE build_proof_no_backtrack(right, target_hash,
                                           Append(inLeft.steps, Left(left.hash)))
    ELSE [found |-> FALSE, steps |-> proof_steps]

\* MerkleTree::build_proof: the returned bool and the step vector after the call
RECURSIVE build_proof(_, _, _)
build_proof(node, target_hash, proof_steps) ==
    IF node.hash = target_hash
    THEN [found |-> TRUE, steps |-> proof_steps]
    ELSE IF node.left # None /\ node.right # None
    THEN LET left  == node.left[1]
             right == node.right[1]
             inLeft == build_proof(left, target_hash, proof_steps)
         IN  IF inLeft.found
             THEN [found |-> TRUE, steps |-> Append(inLeft.steps, Right(right.hash))]
             ELSE LET inRight == build_proof(right, target_hash, inLeft.steps)
                  IN  IF inRight.found
                      THEN [found |-> TRUE, steps |-> Append(inRight.steps, Left(left.hash))]
                      ELSE [found |-> FALSE, steps |-> inRight.steps]
    ELSE [found |-> FALSE, steps |-> proof_steps]

\* MerkleTree::build_proof: the returned bool and the deepest nesting of calls
\* reached below a call made at nesting depth
RECURSIVE build_proof_depth(_, _, _)
build_proof_depth(node, target_hash, depth) ==
    IF node.hash = target_hash
    THEN [found |-> TRUE, depth |-> depth]
    ELSE IF node.left # None /\ node.right # None
    THEN LET inLeft == build_proof_depth(node.left[1], target_hash, depth + 1)
         IN  IF inLeft.found
             THEN inLeft
             ELSE LET inRight == build_proof_depth(node.right[1], target_hash, depth + 1)
                  IN  [found |-> inRight.found,
                       depth |-> IF inLeft.depth > inRight.depth THEN inLeft.depth
                                                                 ELSE inRight.depth]
    ELSE [found |-> FALSE, depth |-> depth]

\* generate_proof without the lookup in the leaf index
generate_proof_unchecked(t, d) ==
    [ok |-> TRUE, err |-> "",
     proof |-> Some([leaf_hash   |-> keccak256(d),
                     proof_steps |-> build_proof(t.root, keccak256(d), <<>>).steps])]

\* MerkleTree::generate_proof
generate_proof(t, d) ==
    LET leaf_hash == keccak256(d)
    IN  IF leaf_hash \notin DOMAIN t.leaves
        THEN [ok |-> FALSE, err |-> "InvalidProof: Data not found in the tree", proof |-> None]
        ELSE [ok |-> TRUE, err |-> "",
              proof |-> Some([leaf_hash   |-> leaf_hash,
                              proof_steps |-> build_proof(t.root, leaf_hash, <<>>).steps])]

\* --------------------------------------------------------------- MerkleProof
\* the loop body using the running hash on both sides of a Left step
verify_step_ignores_left_sibling(computed_hash, step) ==
    IF step.side = "Left"
    THEN Sha256(<<computed_hash>> \o <<computed_hash>>)
    ELSE Sha256(<<computed_hash>> \o <<step.hash>>)

\* the body of the for loop of MerkleProof::verify
verify_step(computed_hash, step) ==
    IF step.side = "Left"
    THEN Sha256(<<step.hash>> \o <<computed_hash>>)
    ELSE Sha256(<<computed_hash>> \o <<step.hash>>)

RECURSIVE verify_fold(_, _, _)
verify_fold(computed_hash, steps, i) ==
    IF i > Len(steps) THEN computed_hash
    ELSE verify_fold(verify_step(computed_hash, steps[i]), steps, i + 1)

\* verify hashing the leaf hash once more before the first step
MerkleProof_verify_rehash(p, root) ==
    verify_fold(Sha256(<<p.leaf_hash>>), p.proof_steps, 1) = root

\* MerkleProof::verify
MerkleProof_verify(p, root) == verify_fold(p.leaf_hash, p.proof_steps, 1) = root

\* ------------------------------------------------------------ serialization
\* alloy_primitives::hex::encode of a 32-byte value
encode(h) == <<"hex", h>>

\* a text that is not hexadecimal
BadHex == <<"nothex", <<>>>>

\* alloy_primitives::hex::decode
decode(text) ==
    IF text[1] = "hex" THEN [ok |-> TRUE, bytes |-> text[2]]
    ELSE [ok |-> FALSE, bytes |-> <<>>]

\* impl Deserialize for MerkleNode: None when a hash text does not decode
RECURSIVE deserialize_node(_)
deserialize_node(doc) ==
    LET l == IF doc.left = None THEN Some(None) ELSE
               LET c == deserialize_node(doc.left[1]) IN IF c = None THEN None ELSE Some(c)
        r == IF doc.right = None THEN Some(None) ELSE
               LET c == deserialize_node(doc.right[1]) IN IF c = None THEN None ELSE Some(c)
        hash_bytes == decode(doc.hash)
    IN  IF l = None \/ r = None \/ ~hash_bytes.ok THEN None
        ELSE Some([hash |-> hash_bytes.bytes, left |-> l[1], right |-> r[1]])

\* MerkleTree::from_json: the leaves field is skipped and defaults to empty
from_json(doc) ==
    LET root == deserialize_node(doc)
    IN  IF root = None
        THEN [ok |-> FALSE, err |-> "SerdeError", tree |-> None]
        ELSE [ok |-> TRUE, err |-> "", tree |-> Some([root |-> root[1], leaves |-> <<>>])]

\* serialization::b256_hex::deserialize
b256_hex_deserialize(text) == decode(text)

\* #[derive(Deserialize)] for MerkleProof and ProofStep
proof_from_json(doc) ==
    LET leaf == b256_hex_deserialize(doc.leaf_hash)
        bad  == {i \in 1..Len(doc.proof_steps) : ~b256_hex_deserialize(doc.proof_steps[i].hash).ok}
    IN  IF ~leaf.ok \/ bad # {}
        THEN [ok |-> FALSE, err |-> "SerdeError", proof |-> None]
        ELSE [ok |-> TRUE, err |-> "",
              proof |-> Some([leaf_hash |-> leaf.bytes,
                              proof_steps |-> [i \in 1..Len(doc.proof_steps) |->
                                  [side |-> doc.proof_steps[i].side,
                                   hash |-> b256_hex_deserialize(doc.proof_steps[i].hash).bytes]]])]

\* ------------------------------------------------------- field alterations
\* the node reached from node by a path of "L"/"R" moves, None when it leaves the tree
RECURSIVE node_at(_, _)
node_at(node, path) ==
    IF path = <<>> THEN Some(node)
    ELSE LET child == IF path[1] = "L" THEN node.left ELSE node.right
         IN  IF child = None THEN None ELSE node_at(child[1], Tail(path))

RECURSIVE paths_of(_)
paths_of(node) ==
    {<<>>}
    \cup (IF node.left = None THEN {} ELSE {<<"L">> \o q : q \in paths_of(node.left[1])})
    \cup (IF node.right = None THEN {} ELSE {<<"R">> \o q : q \in paths_of(node.right[1])})

\* node with the node at path replaced by repl
RECURSIVE replace_at(_, _, _)
replace_at(node, path, repl) ==
    IF path = <<>> THEN repl
    ELSE IF path[1] = "L"
    THEN [node EXCEPT !.left = Some(replace_at(node.left[1], Tail(path), repl))]
    ELSE [node EXCEPT !.right = Some(replace_at(node.right[1], Tail(path), repl))]

\* ------------------------------------------------------------------- inputs
hA == keccak256(RecA)
hB == keccak256(RecB)
hC == keccak256(RecC)

\* records asked of generate_proof: RecD is never a member of a record list
TargetInputs == Records \cup {RecD}

\* hash texts of tree documents
JsonTexts == {encode(hA), encode(hB), encode(keccak256(<<hA, hB>>)), BadHex}

JsonLeafDocs == {[hash |-> t, left |-> None, right |-> None] : t \in JsonTexts}

JsonChildDocs == {None} \cup {Some(n) : n \in JsonLeafDocs}

\* tree documents of depth at most one
JsonDocs == {[hash |-> t, left |-> l, right |-> r] :
                t \in JsonTexts, l \in JsonChildDocs, r \in JsonChildDocs}

\* digests written into a node by an alteration
AlterHashes == {hA, keccak256(RecD)}

\* digests occurring in proof documents
ProofDigests == {hA, hB, keccak256(<<hA, hB>>)}

ProofTexts == {encode(h) : h \in ProofDigests} \cup {BadHex}

StepDocs == {[side |-> sd, hash |-> t] : sd \in {"Left", "Right"}, t \in ProofTexts}

ProofDocs == {[leaf_hash |-> t, proof_steps |-> st] :
                 t \in ProofTexts, st \in SeqsUpTo(StepDocs, MaxSteps)}

\* the digest a chain of two-block hashes by the function named fn gives
RECURSIVE chained_digest(_, _, _, _)
chained_digest(fn, running, steps, i) ==
    IF i > Len(steps) THEN running
    ELSE chained_digest(fn,
                        IF steps[i].side = "Left" THEN <<fn, <<steps[i].hash, running>>>>
                                                  ELSE <<fn, <<running, steps[i].hash>>>>,
                        steps, i + 1)

\* claimed roots handed to the standalone verifier for proof p
RootInputs(p) ==
    ProofDigests
    \cup {chained_digest("sha256", p.leaf_hash, p.proof_steps, 1),
          chained_digest("keccak256", p.leaf_hash, p.proof_steps, 1)}

\* ------------------------------------------------------------------- state
NoRet == [op |-> "none", arg |-> None, ok |-> TRUE, err |-> "", val |-> FALSE]

Init ==
    /\ tree = None
    /\ proof = None
    /\ ret = NoRet
    /\ data = <<>>
    /\ alters = 0

\* let tree = MerkleTree::new(&d)
New(d) ==
    /\ tree = None
    /\ LET r == new(d)
       IN  /\ tree' = r.tree
           /\ data' = IF r.ok THEN d ELSE data
           /\ ret' = [op |-> "new", arg |-> d, ok |-> r.ok, err |-> r.err, val |-> FALSE]
    /\ UNCHANGED <<proof, alters>>

\* let tree = MerkleTree::from_json(doc)
FromJson(doc) ==
    /\ tree = None
    /\ LET r == from_json(doc)
       IN  /\ tree' = r.tree
           /\ ret' = [op |-> "from_json", arg |-> None, ok |-> r.ok, err |-> r.err, val |-> FALSE]
    /\ UNCHANGED <<proof, data, alters>>

\* let proof = tree.generate_proof(&d)
GenerateProof(d) ==
    /\ tree # None
    /\ proof = None
    /\ LET r == generate_proof(tree[1], d)
       IN  /\ proof' = r.proof
           /\ ret' = [op |-> "generate_proof", arg |-> d, ok |-> r.ok, err |-> r.err, val |-> FALSE]
    /\ UNCHANGED <<tree, data, alters>>

\* let proof: MerkleProof = serde_json::from_str(doc)
ProofFromJson(doc) ==
    /\ proof = None
    /\ LET r == proof_from_json(doc)
       IN  /\ proof' = r.proof
           /\ ret' = [op |-> "proof_from_json", arg |-> None, ok |-> r.ok, err |-> r.err, val |-> FALSE]
    /\ UNCHANGED <<tree, data, alters>>

\* proof.verify(&root)
ProofVerify(root) ==
    /\ proof # None
    /\ ret' = [op |-> "proof_verify", arg |-> root, ok |-> TRUE, err |-> "",
               val |-> MerkleProof_verify(proof[1], root)]
    /\ UNCHANGED <<tree, proof, data, alters>>

\* tree.verify()
TreeVerify ==
    /\ tree # None
    /\ ret' = [op |-> "tree_verify", arg |-> None, ok |-> TRUE, err |-> "",
               val |-> MerkleTree_verify(tree[1])]
    /\ UNCHANGED <<tree, proof, data, alters>>

\* assignment to the public hash field of the node at path
SetNodeHash(path, h) ==
    /\ tree # None
    /\ alters < MaxAlter
    /\ path \in paths_of(tree[1].root)
    /\ LET node == node_at(tree[1].root, path)[1]
       IN  /\ node.hash # h
           /\ tree' = Some([tree[1] EXCEPT !.root = replace_at(@, path, [node EXCEPT !.hash = h])])
    /\ alters' = alters + 1
    /\ ret' = NoRet
    /\ UNCHANGED <<proof, data>>

\* assignment of None to the public left or right field of the node at path
DropChild(path, side) ==
    /\ tree # None
    /\ alters < MaxAlter
    /\ path \in paths_of(tree[1].root)
    /\ LET node == node_at(tree[1].root, path)[1]
       IN  /\ IF side = "L" THEN node.left # None ELSE node.right # None
           /\ tree' = Some([tree[1] EXCEPT !.root = replace_at(@, path,
                              IF side = "L" THEN [node EXCEPT !.left = None]
                                            ELSE [node EXCEPT !.right = None])])
    /\ alters' = alters + 1
    /\ ret' = NoRet
    /\ UNCHANGED <<proof, data>>

\* every value goes out of scope
Reset ==
    /\ ret.op # "none" \/ tree # None \/ proof # None
    /\ tree' = None
    /\ proof' = None
    /\ ret' = NoRet
    /\ data' = <<>>
    /\ alters' = 0

AllPaths == SeqsUpTo({"L", "R"}, MaxLen)

\* a library client: builds or loads a tree, checks it, proves and verifies
\* against the root of its tree
Next ==
    \/ \E d \in DataInputs : New(d)
    \/ \E doc \in JsonDocs : FromJson(doc)
    \/ \E d \in TargetInputs : GenerateProof(d)
    \/ (tree # None /\ ProofVerify(root_hash(tree[1])))
    \/ TreeVerify
    \/ \E path \in AllPaths, h \in AlterHashes : SetNodeHash(path, h)
    \/ \E path \in AllPaths, side \in {"L", "R"} : DropChild(path, side)
    \/ Reset

Spec == Init /\ [][Next]_vars

\* the standalone verifier: a proof document and a claimed root, no tree
NextProof ==
    \/ \E doc \in ProofDocs : ProofFromJson(doc)
    \/ (proof # None /\ \E root \in RootInputs(proof[1]) : ProofVerify(root))
    \/ Reset

SpecProof == Init /\ [][NextProof]_vars

\* ---------------------------------------------------- construction at depth
MaxBuildLen == 6   \* longest record list of the construction specification

\* two 32-byte records and the 64-byte record; lists repeat them
BuildRecords == {RecA, RecB, RecAB}

BuildInputs == SeqsUpTo(BuildRecords, MaxBuildLen)

BuildTargets == BuildRecords \cup {RecD}

\* a client that builds trees of several levels and asks them for proofs
NextBuild ==
    \/ \E d \in BuildInputs : New(d)
    \/ \E d \in BuildTargets : GenerateProof(d)
    \/ Reset

SpecBuild == Init /\ [][NextBuild]_vars

\* ================================================================== claims
Range(f) == {f[i] : i \in DOMAIN f}

Distinct(d) == \A i, j \in DOMAIN d : i # j => d[i] # d[j]

\* the tree is the one MerkleTree::new returned for data, no field altered
Built == tree # None /\ data # <<>> /\ alters = 0

HasBothChildren(node) == node.left # None /\ node.right # None

IsLeaf(node) == node.left = None /\ node.right = None

\* replaying steps from a digest with the Node Combiner
RECURSIVE replay(_, _, _)
replay(running, steps, i) ==
    IF i > Len(steps) THEN running
    ELSE replay(IF steps[i].side = "Left" THEN combine(steps[i].hash, running)
                                          ELSE combine(running, steps[i].hash),
                steps, i + 1)

\* the sibling digests and sides along path, lowest level first
RECURSIVE path_steps(_, _)
path_steps(node, path) ==
    IF path = <<>> THEN <<>>
    ELSE IF path[1] = "L"
    THEN Append(path_steps(node.left[1], Tail(path)), Right(node.right[1].hash))
    ELSE Append(path_steps(node.right[1], Tail(path)), Left(node.left[1].hash))

\* C1: for a list of pairwise distinct records and a record r of it, the
\* proof generate_proof returns for r verifies against the root hash of the
\* tree MerkleTree::new built from the list.
C1_MemberProofVerifies ==
    (/\ ret.op = "proof_verify"
     /\ Built
     /\ Distinct(data)
     /\ \E r \in Range(data) : proof = generate_proof(tree[1], r).proof
     /\ ret.arg = root_hash(tree[1]))
    => ret.val = TRUE

\* C2: the integrity check returns true on the tree MerkleTree::new returned.
C2_BuiltTreeVerifies ==
    (ret.op = "tree_verify" /\ Built) => ret.val = TRUE

C2_Witness ==
    ret.op = "tree_verify" /\ Built /\ Len(data) = 3 /\ Distinct(data) /\ ret.val = TRUE

\* C3: MerkleProof::verify returns true exactly when folding the steps from
\* the leaf digest with the Node Combiner (Left(s): combine(s, running),
\* Right(s): combine(running, s)) yields the claimed root.
C3_VerifyUsesNodeCombiner ==
    (ret.op = "proof_verify" /\ proof # None)
    => (ret.val = TRUE <=> replay(proof[1].leaf_hash, proof[1].proof_steps, 1) = ret.arg)

\* digests of all nodes of a tree
NodeDigests(root) == {node_at(root, path)[1].hash : path \in paths_of(root)}

\* proof values tried against a tree: leaf digests and sibling digests drawn
\* from the tree's own digests and from digests foreign to it
CandidateDigests(root) == NodeDigests(root) \cup {hA, hB, keccak256(RecD)}

CandidateSteps(root) ==
    SeqsUpTo({Left(h) : h \in CandidateDigests(root)} \cup {Right(h) : h \in CandidateDigests(root)},
             MaxSteps)

\* h with steps is the digest of a leaf of the tree with that leaf's path
IsLeafPath(root, h, steps) ==
    \E path \in paths_of(root) :
       /\ IsLeaf(node_at(root, path)[1])
       /\ node_at(root, path)[1].hash = h
       /\ path_steps(root, path) = steps

\* h with steps is the digest of a node of the tree, leaf or internal, with
\* that node's path
IsNodePath(root, h, steps) ==
    \E path \in paths_of(root) :
       /\ node_at(root, path)[1].hash = h
       /\ path_steps(root, path) = steps

\* C4 as stated: for a built tree, replaying steps from a digest with the
\* Node Combiner reproduces the root digest iff the digest is that of a leaf
\* of the tree and the steps are that leaf's path to the root.
C4_ReplayIffLeafPath ==
    (Built /\ ret.op = "new")
    => \A h \in CandidateDigests(tree[1].root), steps \in CandidateSteps(tree[1].root) :
          replay(h, steps, 1) = root_hash(tree[1])
          <=> IsLeafPath(tree[1].root, h, steps)

\* no record is 64 bytes long (two 32-byte blocks)
No64ByteRecord == \A i \in DOMAIN data : Len(data[i]) # 2

\* C4 amended: for a tree built from records none of which is 64 bytes long,
\* replaying steps from a digest with the Node Combiner reproduces the root
\* digest iff the digest is that of a node of the tree, leaf or internal, and
\* the steps are that node's path to the root.
C4_ReplayIffNodePath ==
    (Built /\ ret.op = "new" /\ No64ByteRecord)
    => \A h \in CandidateDigests(tree[1].root), steps \in CandidateSteps(tree[1].root) :
          replay(h, steps, 1) = root_hash(tree[1])
          <=> IsNodePath(tree[1].root, h, steps)

C4_Witness ==
    /\ Built /\ ret.op = "new" /\ data = <<RecA, RecB, RecC>>
    /\ replay(hA, <<Right(hB), Right(hC)>>, 1) = root_hash(tree[1])

\* C5: generate_proof for a record whose leaf hash is not a key of the leaf
\* index returns the not-found error (InvalidProof, "Data not found in the
\* tree") and no proof.
C5_AbsentRecordRejected ==
    (ret.op = "generate_proof" /\ keccak256(ret.arg) \notin DOMAIN tree[1].leaves)
    => /\ ret.ok = FALSE
       /\ ret.err = "InvalidProof: Data not found in the tree"
       /\ proof = None

C5_Witness ==
    ret.op = "generate_proof" /\ Built /\ Len(data) = 3 /\ ret.arg \notin Range(data)
    /\ ret.ok = FALSE

\* C6: MerkleTree::new on an empty list returns EmptyData and no tree, and
\* every tree MerkleTree::new returns holds at least one record.
C6_EmptyInputRejected ==
    /\ (ret.op = "new" /\ ret.arg = <<>>)
       => (ret.ok = FALSE /\ ret.err = "EmptyData" /\ tree = None)
    /\ (ret.op = "new" /\ ret.ok)
       => (tree # None /\ Len(ret.arg) >= 1 /\ DOMAIN tree[1].leaves # {})

C6_Witness ==
    ret.op = "new" /\ ret.arg = <<>> /\ ret.ok = FALSE /\ tree = None

\* C7: the tree built from one record A has the leaf of A as its root, root
\* digest keccak256(A); the proof for A has zero steps and verifies against
\* the root digest.
C7_SingleRecordTree ==
    (Built /\ Len(data) = 1)
    => /\ tree[1].root = new_leaf(data[1])
       /\ root_hash(tree[1]) = keccak256(data[1])
       /\ (ret.op = "generate_proof" /\ ret.arg = data[1])
          => (ret.ok /\ proof # None /\ proof[1].proof_steps = <<>>
              /\ proof[1].leaf_hash = keccak256(data[1]))
       /\ (ret.op = "proof_verify" /\ ret.arg = root_hash(tree[1]))
          => ret.val = TRUE

C7_Witness ==
    Built /\ Len(data) = 1 /\ ret.op = "proof_verify" /\ proof # None
    /\ proof[1].proof_steps = <<>> /\ ret.val = TRUE

\* the shape MerkleTree::new gives three records: A and B under a parent P,
\* the leaf of C promoted and combined with P into the root
ThreeRecordShape ==
    LET P == new_internal(new_leaf(data[1]), new_leaf(data[2]))
    IN  /\ tree[1].root = new_internal(P, new_leaf(data[3]))
        /\ tree[1].root.left[1].hash = combine(keccak256(data[1]), keccak256(data[2]))
        /\ tree[1].root.right[1] = new_leaf(data[3])

ProofOfThirdIsLeftP ==
    (ret.op = "generate_proof" /\ ret.arg = data[3])
    => /\ ret.ok
       /\ proof # None
       /\ proof[1].proof_steps = <<Left(tree[1].root.left[1].hash)>>

\* C8 as stated: for any 3 records [A, B, C] the tree has the promoted shape
\* and the proof for C is the single step Left(P.digest).
C8_AnyThreeRecords ==
    (Built /\ Len(data) = 3) => (ThreeRecordShape /\ ProofOfThirdIsLeftP)

\* C8 amended: the shape holds for any 3 records; the proof for C is the
\* single step Left(P.digest) when the leaf hash of C differs from the leaf
\* hashes of A and B and from P's digest.
C8_ThreeRecordsDistinctDigests ==
    (Built /\ Len(data) = 3)
    => /\ ThreeRecordShape
       /\ (keccak256(data[3]) \notin {keccak256(data[1]), keccak256(data[2]),
                                      tree[1].root.left[1].hash})
          => ProofOfThirdIsLeftP

C8_Witness ==
    /\ Built /\ data = <<RecA, RecB, RecC>>
    /\ ret.op = "generate_proof" /\ ret.arg = RecC /\ ret.ok
    /\ Len(proof[1].proof_steps) = 1

\* digests put in place of a sibling digest
TamperDigests == ProofDigests \cup {hC, Sha256(<<hA, hB>>)}

ReplaceSibling(p, i, h) == [p EXCEPT !.proof_steps[i].hash = h]

\* C9: when MerkleProof::verify returned true for a proof and a root,
\* replacing the sibling digest of any one step by a different digest makes
\* it return false for the same root.
C9_TamperedSiblingRejected ==
    (ret.op = "proof_verify" /\ ret.val = TRUE)
    => \A i \in 1..Len(proof[1].proof_steps) :
         \A h \in TamperDigests \ {proof[1].proof_steps[i].hash} :
            ~MerkleProof_verify(ReplaceSibling(proof[1], i, h), ret.arg)

C9_Witness ==
    /\ ret.op = "proof_verify" /\ ret.val = TRUE
    /\ Len(proof[1].proof_steps) = 2
    /\ proof[1].proof_steps[1].side = "Left"

\* every node has no child or both, and every node with two children stores
\* the Node Combiner's digest of its children's digests
Consistent(root) ==
    \A path \in paths_of(root) :
       LET node == node_at(root, path)[1]
       IN  /\ IsLeaf(node) \/ HasBothChildren(node)
           /\ HasBothChildren(node)
              => node.hash = combine(node.left[1].hash, node.right[1].hash)

\* C10: the integrity check of any materialized tree returns true exactly
\* when the tree is consistent at every node; leaf digests are taken as given.
C10_IntegrityCheckExact ==
    (ret.op = "tree_verify")
    => /\ ret.val = TRUE <=> Consistent(tree[1].root)
       /\ IsLeaf(tree[1].root) => ret.val = TRUE

\* the check failed below a root that is itself consistent with its children
C10_Witness ==
    /\ ret.op = "tree_verify" /\ ret.val = FALSE
    /\ HasBothChildren(tree[1].root)
    /\ tree[1].root.hash = combine(tree[1].root.left[1].hash, tree[1].root.right[1].hash)
    /\ HasBothChildren(tree[1].root.left[1])

\* the digests of the childless nodes of a tree, read left to right
RECURSIVE leaf_digests(_)
leaf_digests(node) ==
    IF IsLeaf(node) THEN <<node.hash>>
    ELSE (IF node.left = None THEN <<>> ELSE leaf_digests(node.left[1]))
         \o (IF node.right = None THEN <<>> ELSE leaf_digests(node.right[1]))

\* the levels build_tree_recursive went through for the current record list
BuiltLevels == levels_of([i \in 1..Len(data) |-> new_leaf(data[i])])

\* C11: the tree built from n records (duplicates allowed) has exactly n leaf
\* nodes whose digests, left to right, are the leaf hashes of the records in
\* input order; every other node has two children and the combiner's digest
\* of them; each level pairs the nodes of the level below in order, and a node
\* left unpaired at an odd-sized level is the last node of the next level,
\* unchanged; no node has exactly one child.
C11_BuiltTreeShape ==
    Built
    => /\ leaf_digests(tree[1].root) = [i \in 1..Len(data) |-> keccak256(data[i])]
       /\ Cardinality({path \in paths_of(tree[1].root) :
                          IsLeaf(node_at(tree[1].root, path)[1])}) = Len(data)
       /\ Consistent(tree[1].root)
       /\ BuiltLevels[Len(BuiltLevels)] = <<tree[1].root>>
       /\ \A k \in 1..(Len(BuiltLevels) - 1) :
             LET lower == BuiltLevels[k]
                 upper == BuiltLevels[k + 1]
             IN  /\ Len(upper) = (Len(lower) + 1) \div 2
                 /\ \A j \in 1..(Len(lower) \div 2) :
                       /\ upper[j].left = Some(lower[2 * j - 1])
                       /\ upper[j].right = Some(lower[2 * j])
                 /\ Len(lower) % 2 = 1 => upper[Len(upper)] = lower[Len(lower)]

\* five records with a repeated one: the fifth leaf is left unpaired twice
C11_Witness ==
    /\ Built /\ ret.op = "new" /\ Len(data) = 5 /\ data[1] = data[2]
    /\ tree[1].root.right[1] = new_leaf(data[5])
    /\ HasBothChildren(tree[1].root.left[1].left[1])

\* the least k with 2^k >= n, that is ceil(log2(n))
RECURSIVE CeilLog2From(_, _, _)
CeilLog2From(n, k, pow) ==
    IF pow >= n THEN k ELSE CeilLog2From(n, k + 1, 2 * pow)

CeilLog2(n) == CeilLog2From(n, 0, 1)

\* the paths of a tree in the order a left-first search visits its nodes
RECURSIVE preorder(_)
preorder(node) ==
    <<<<>>>>
    \o (IF HasBothChildren(node)
        THEN LET l == preorder(node.left[1])
                 r == preorder(node.right[1])
             IN  [i \in 1..Len(l) |-> <<"L">> \o l[i]] \o [i \in 1..Len(r) |-> <<"R">> \o r[i]]
        ELSE <<>>)

\* the path of the first node, in search order, whose digest is h
StopPath(root, h) ==
    LET order == preorder(root)
        hits  == {i \in 1..Len(order) : node_at(root, order[i])[1].hash = h}
    IN  order[CHOOSE i \in hits : \A j \in hits : i <= j]

\* the proof generate_proof just returned for a record of the built tree
ProofReturned == Built /\ ret.op = "generate_proof" /\ ret.ok /\ proof # None

StepsWithinLogBound ==
    /\ build_proof_depth(tree[1].root, keccak256(ret.arg), 0).depth <= CeilLog2(Len(data))
    /\ Len(proof[1].proof_steps) <= CeilLog2(Len(data))

StepsEqualStopDepth ==
    Len(proof[1].proof_steps) = Len(StopPath(tree[1].root, keccak256(ret.arg)))

\* C12 as stated: for a tree built from n records and a record of it, the
\* recursion depth of build_proof and the number of proof steps are at most
\* ceil(log2(n)), and the number of steps is the depth of the leaf the search
\* stops at.
C12_StepsAreStopLeafDepth ==
    ProofReturned
    => /\ StepsWithinLogBound
       /\ StepsEqualStopDepth
       /\ IsLeaf(node_at(tree[1].root, StopPath(tree[1].root, keccak256(ret.arg)))[1])

\* C12 amended: the recursion depth of build_proof and the number of proof
\* steps are at most ceil(log2(n)), and the number of steps is the depth of
\* the node the search stops at, the first node in left-first order whose
\* digest equals the record's leaf hash.
C12_StepsAreStopNodeDepth ==
    ProofReturned => (StepsWithinLogBound /\ StepsEqualStopDepth)

\* five records, the search stops at a leaf three levels below the root
C12_Witness ==
    /\ ProofReturned /\ Len(data) = 5
    /\ Len(proof[1].proof_steps) = 3
    /\ build_proof_depth(tree[1].root, keccak256(ret.arg), 0).depth = 3

====
